---- MODULE Spec2Model ----
(***************************************************************************)
(* Model of the subtask status monitor of automech                         *)
(* (src/automech/cli/_subtasks_status.py): the aggregation of the per-log  *)
(* statuses of one subtask directory into one Status                       *)
(* (parse_subtask_status) and the status pass (main) that renders the      *)
(* (task, key) matrix and collects the non-OK log records.                 *)
(*                                                                         *)
(* Two specifications share the variables:                                 *)
(*   Spec      one subtask directory is filled with log files by the jobs, *)
(*             then parse_subtask_status is called on it;                  *)
(*   SpecPass  a small subtask tree under a work root, written by jobs     *)
(*             while main runs over the groups, rows and cells.            *)
(***************************************************************************)
EXTENDS Integers, Sequences, FiniteSets, TLC

(***************************************************************************)
(* Bounds of the model.                                                    *)
(***************************************************************************)
\* Spec: the largest number of log files in the subtask directory.
MaxLogs == 16

(***************************************************************************)
(* Status: the closed vocabulary imported from ._check_log (line 12).      *)
(***************************************************************************)
Status == {"TBD", "RUNNING", "OK", "WARNING", "ERROR", "OK_1E", "OK_2E"}

\* What a failed `assert` leaves instead of a return value.
AssertionError == "AssertionError"

\* A file of a subtask directory whose name does not match "out*.log".
NotLog == "notlog"

\* A directory entry is a log file, given by the Status the log parser reads
\* from its text, or a file that is no log.
Entry == Status \cup {NotLog}

\* The log parser (._check_log.parse_log_status, not in the sources): the
\* text of one log file gives exactly one Status of the closed set.  A log
\* file is represented by that Status.
parse_log_status(entry) == entry

\* small_thresh, the default of parse_subtask_status (line 96), 0.2 = 1/5.
SmallThreshNum == 1
SmallThreshDen == 5

\* An order on the entries, used only to list a directory in one canonical
\* order in Spec.
Rank(e) ==
    CASE e = "TBD" -> 0
      [] e = "RUNNING" -> 1
      [] e = "OK" -> 2
      [] e = "WARNING" -> 3
      [] e = "ERROR" -> 4
      [] e = "OK_1E" -> 5
      [] e = "OK_2E" -> 6
      [] OTHER -> 7

(***************************************************************************)
(* The file system: each directory path either does not exist or holds a   *)
(* list of entries, in the order the directory scan returns them.          *)
(***************************************************************************)
NoDir == [exists |-> FALSE, files |-> <<>>]
EmptyDir == [exists |-> TRUE, files |-> <<>>]

\* The work root named by the Manifest (info_dct[InfoKey.work_path], line 40)
\* and another directory a process may be started in.
WorkRoot == "work"
ElseRoot == "else"

\* Spec: the path parse_subtask_status is called on.
AggPath == <<WorkRoot, "a1">>

\* The default of main's argument wrap (line 23).
DefaultWrap == 18

VARIABLES
    fs,         \* the subtask tree: directory path -> [exists, files]
    pc,         \* where the call of parse_subtask_status (Spec) or of main
                \* (SpecPass) stands, or the exception that ended it
    status,     \* Spec: what parse_subtask_status returned, or "none"
    disk,       \* the persisted artifacts under the subtask root: Manifest,
                \* Task Catalogs and Subtask Matrices
    wrap,       \* main's argument wrap
    cwd,        \* the working directory of the process running main
    gi,         \* main: index of the current group in group_ids
    ri,         \* main: index of the current row of the group's matrix
    out,        \* main: the lines printed so far
    non_okay_log_records,   \* main: the list of the same name (line 42)
    writes,     \* the number of directories and files jobs created since Init
    races,      \* the number of them created while main was running (in
                \* SpecPoll: since the current pass started)
    exc,        \* main: the exception that ended the pass, or NoExc
    passes,     \* SpecPoll: the number of passes started
    prev_out,   \* SpecPoll: the lines the previous pass printed
    since_prev, \* SpecPoll: the number of changes jobs made to the tree since
                \* the previous pass started
    row_args,   \* SpecRow: the arguments of print_task_row
    run_statuses,   \* SpecRun: the statuses the run command was given
    selected,   \* SpecRun: the subtask directories selected for a run
    info_status,    \* SpecGeom: the status in the info file of the run
                    \* directory, or NoInfo
    inv,        \* SpecGeom: the invocations of reference_geometry
    ipc,        \* SpecImag: where _remove_imag is
    imag,       \* SpecImag: the result of the latest Hessian check
    imag_fix_needed,    \* SpecImag: the value _remove_imag returns
    chk_idx,    \* SpecImag: the number of kick-off attempts made
    kickoff_size,   \* SpecImag: the size of the next kick-off
    kicks       \* SpecImag: the kick-off sizes used, with the result of
                \* the check that followed each

aggvars == <<fs, pc, status>>
\* What only SpecPoll, SpecRow and SpecRun change.
pollvars == <<passes, prev_out, since_prev>>
othervars == <<row_args, run_statuses, selected>>
\* What only SpecGeom and SpecImag change.
geomvars == <<info_status, inv>>
imagvars == <<ipc, imag, imag_fix_needed, chk_idx, kickoff_size, kicks>>
extvars == <<geomvars, imagvars>>
passvars == <<disk, wrap, cwd, gi, ri, out, non_okay_log_records, writes,
              races, exc, passes, prev_out, since_prev, row_args,
              run_statuses, selected, info_status, inv, ipc, imag,
              imag_fix_needed, chk_idx, kickoff_size, kicks>>
vars == <<fs, pc, status, disk, wrap, cwd, gi, ri, out,
          non_okay_log_records, writes, races, exc, passes, prev_out,
          since_prev, row_args, run_statuses, selected, info_status, inv,
          ipc, imag, imag_fix_needed, chk_idx, kickoff_size, kicks>>

\* No exception, and an exception with the names its message holds and
\* whether the message tells the operator to run the setup first.
NoExc == [type |-> "", names |-> <<>>, hint |-> FALSE]
Exc(type, names, hint) == [type |-> type, names |-> names, hint |-> hint]
\* No arguments, statuses or selection yet.
NoArgs == [label |-> "", vals |-> <<>>, label_width |-> 0]
NotGiven == <<"(not given)">>

\* The run directory has no info file; the invocations of
\* reference_geometry of the model, none of which has been called.
NoInfo == "(no info file)"
GeomProcs == {1, 2}
NotCalled == [pc |-> "idle", inf_obj |-> NoInfo, geo_found |-> FALSE,
              calls |-> 0]
\* Nothing of reference_geometry and _remove_imag has run.
InitExt ==
    /\ info_status = NoInfo
    /\ inv = [p \in GeomProcs |-> NotCalled]
    /\ ipc = "idle"
    /\ imag = FALSE
    /\ imag_fix_needed = FALSE
    /\ chk_idx = 0
    /\ kickoff_size = 0
    /\ kicks = <<>>

(***************************************************************************)
(* log_paths_with_statuses (lines 82-93): glob "out*.log" in the directory *)
(* (nothing when the directory does not exist), parse each log, zip paths  *)
(* and statuses and drop the excluded statuses.  A log path is the index   *)
(* of the file in its directory.                                           *)
(***************************************************************************)
\* (variant: every file of the directory, whatever its name)
glob_all(dir) ==
    IF dir.exists THEN [i \in 1..Len(dir.files) |-> i] ELSE <<>>
glob_logs(dir) ==
    IF dir.exists
    THEN SelectSeq([i \in 1..Len(dir.files) |-> i],
                   LAMBDA i : dir.files[i] # NotLog)
    ELSE <<>>

log_paths_with_statuses(dir, exclude_stats) ==
    LET log_paths == glob_logs(dir)
        log_dct == [k \in 1..Len(log_paths) |->
                      [path |-> log_paths[k],
                       stat |-> parse_log_status(dir.files[log_paths[k]])]]
    IN  SelectSeq(log_dct, LAMBDA kv : kv.stat \notin exclude_stats)

\* A count of the leading occurrences only.
RECURSIVE count_leading(_, _)
count_leading(log_stats, s) ==
    IF log_stats = <<>> \/ Head(log_stats) # s THEN 0
    ELSE 1 + count_leading(Tail(log_stats), s)

\* list.count (line 118)
RECURSIVE count(_, _)
count(log_stats, s) ==
    IF log_stats = <<>> THEN 0
    ELSE (IF Head(log_stats) = s THEN 1 ELSE 0) + count(Tail(log_stats), s)

\* error_frac < small_thresh (lines 119-122): error_count / len < 1/5,
\* compared exactly as error_count * 5 < len.
\* (variants: <= for <; the fraction taken of the logs without error)
small_error_frac_lax(error_count, n) ==
    error_count * SmallThreshDen <= SmallThreshNum * n
small_error_frac_of_rest(error_count, n) ==
    error_count * SmallThreshDen < SmallThreshNum * (n - error_count)
small_error_frac(error_count, n) ==
    error_count * SmallThreshDen < SmallThreshNum * n

\* line 110: all log files have the same status
\* (variant: the test of the length off by one)
rule_common_empty(log_stat_set) == Cardinality(log_stat_set) = 0
rule_common(log_stat_set) == Cardinality(log_stat_set) = 1

\* line 114: some log file is still running
\* (variant: every log file must be running)
rule_running_all(log_stat_set) == log_stat_set = {"RUNNING"}
rule_running(log_stat_set) == "RUNNING" \in log_stat_set

\* line 120: one error, below the threshold
rule_ok_1e(error_count, n) ==
    error_count = 1 /\ small_error_frac(error_count, n)

\* line 122: two errors, below the threshold
\* (variant: two errors or more)
rule_ok_2e_or_more(error_count, n) ==
    error_count >= 2 /\ small_error_frac(error_count, n)
rule_ok_2e(error_count, n) ==
    error_count = 2 /\ small_error_frac(error_count, n)

\* line 124: some log file has an error
rule_error(log_stat_set) == "ERROR" \in log_stat_set

\* line 128: the assertion before WARNING is returned
\* (variants: the assertion switched off; WARNING alone expected)
warning_assert_off(log_stat_set) == TRUE
warning_assert_only(log_stat_set) == log_stat_set = {"WARNING"}
warning_assert(log_stat_set) == log_stat_set = {"OK", "WARNING"}

\* The rules of parse_subtask_status on a non-empty list (lines 106-129).
aggregate(log_stats) ==
    LET log_stat_set == {log_stats[i] : i \in 1..Len(log_stats)}
        error_count == count(log_stats, "ERROR")
    IN  IF rule_common(log_stat_set)
          THEN CHOOSE s \in log_stat_set : TRUE
        ELSE IF rule_running(log_stat_set)
          THEN "RUNNING"
        ELSE IF rule_ok_1e(error_count, Len(log_stats))
          THEN "OK_1E"
        ELSE IF rule_ok_2e(error_count, Len(log_stats))
          THEN "OK_2E"
        ELSE IF rule_error(log_stat_set)
          THEN "ERROR"
        ELSE IF warning_assert(log_stat_set)
          THEN "WARNING"
        ELSE AssertionError

\* parse_subtask_status (lines 96-129)
parse_subtask_status(dir) ==
    LET log_dct == log_paths_with_statuses(dir, {})
    IN  IF log_dct = <<>>
        THEN "TBD"
        ELSE aggregate([k \in 1..Len(log_dct) |-> log_dct[k].stat])

(***************************************************************************)
(* Spec: jobs write log files into one subtask directory, then             *)
(* parse_subtask_status is called on it.                                   *)
(***************************************************************************)
Init ==
    /\ fs = [p \in {AggPath} |-> EmptyDir]
    /\ pc = "idle"
    /\ status = "none"
    /\ disk = [root_exists |-> FALSE]
    /\ wrap = DefaultWrap
    /\ cwd = WorkRoot
    /\ gi = 0
    /\ ri = 0
    /\ out = <<>>
    /\ non_okay_log_records = <<>>
    /\ writes = 0
    /\ races = 0
    /\ exc = NoExc
    /\ passes = 0
    /\ prev_out = <<>>
    /\ since_prev = 0
    /\ row_args = NoArgs
    /\ run_statuses = NotGiven
    /\ selected = {}
    /\ InitExt

\* A job writes one more log file, whose text the log parser reads as s.
\* The directory is listed in rank order: the rules read the list only
\* through its length, its set of values and its count of ERROR.
WriteLog(s) ==
    /\ pc = "idle"
    /\ LET files == fs[AggPath].files
       IN  /\ Len(files) < MaxLogs
           /\ files # <<>> => Rank(files[Len(files)]) <= Rank(s)
           /\ fs' = [fs EXCEPT ![AggPath].files = Append(files, s)]
    /\ UNCHANGED <<pc, status>>
    /\ UNCHANGED passvars

CallParseSubtaskStatus ==
    /\ pc = "idle"
    /\ status' = parse_subtask_status(fs[AggPath])
    /\ pc' = IF status' = AssertionError THEN "raised" ELSE "returned"
    /\ UNCHANGED fs
    /\ UNCHANGED passvars

Next ==
    \/ \E s \in Status : WriteLog(s)
    \/ CallParseSubtaskStatus

Spec == Init /\ [][Next]_vars

\* The list of statuses the call read.
LogStats == [i \in 1..Len(fs[AggPath].files) |-> fs[AggPath].files[i]]
LogStatSet == {LogStats[i] : i \in 1..Len(LogStats)}
Called == pc # "idle"

TypeOK ==
    /\ pc \in {"idle", "returned", "raised"}
    /\ status \in Status \cup {AssertionError, "none"}
    /\ DOMAIN fs = {AggPath}
    /\ \A i \in 1..Len(fs[AggPath].files) : fs[AggPath].files[i] \in Status
(***************************************************************************)
(* The persisted artifacts read by main.                                   *)
(*   Task    [name, subtask_keys]            (read_task_list, line 45)     *)
(*   row     [task, cells]: the task name of the row and, for each column  *)
(*           of the matrix, a path relative to the work root, or Blank     *)
(***************************************************************************)
\* An empty cell of the matrix, as pandas.read_csv gives it (NaN).
Blank == "nan"
\* What row.get gives for a column the matrix does not have (line 55).
None == "None"

\* TableKey.task, the header of the first column of the matrix (line 50).
TableKey_task == "task"

\* The subtask directories of the model, relative to the work root.
RelPaths == {"a1", "a2", "b1", "b2", "g2/c1"}
PassDirs == {<<WorkRoot, r>> : r \in RelPaths}

\* len() of the strings of the model.
StrLen(s) ==
    CASE s = "" -> 0
      [] s \in {"A", "B", "X"} -> 1
      [] s \in {"Cc", "p1", "p2", "a1", "a2", "b1", "b2", "OK"} -> 2
      [] s \in {"TBD", "nan"} -> 3
      [] s \in {"task", "None"} -> 4
      [] s \in {"g2/c1", "ERROR", "OK_1E", "OK_2E"} -> 5
      [] s \in {"RUNNING", "WARNING"} -> 7

\* len() of a log path: the directory, "/" and a file name "out<i>.log".
PathLen(p) == StrLen(p.dir) + 1 + (IF p.file < 10 THEN 8 ELSE 9)

\* STATUS_WIDTH of ._check_log (line 12): the width of a status column.
STATUS_WIDTH == 7

\* colored_status_string of ._check_log (line 12): the status label with
\* terminal styling; the styling is not modelled.
colored_status_string(stat) == stat

TaskA == [name |-> "A", subtask_keys |-> <<"p1", "p2">>]
TaskB == [name |-> "B", subtask_keys |-> <<"p1", "p2">>]
TaskB1 == [name |-> "B", subtask_keys |-> <<"p1">>]
TaskC == [name |-> "Cc", subtask_keys |-> <<"p1">>]

RowA == [task |-> "A", cells |-> [k \in {"p1", "p2"} |->
                                    IF k = "p1" THEN "a1" ELSE "a2"]]
RowB == [task |-> "B", cells |-> [k \in {"p1", "p2"} |->
                                    IF k = "p1" THEN "b1" ELSE "b2"]]
RowB1 == [task |-> "B", cells |-> [k \in {"p1", "p2"} |->
                                    IF k = "p1" THEN "b1" ELSE Blank]]
RowX == [task |-> "X", cells |-> [k \in {"p1", "p2"} |->
                                    IF k = "p1" THEN "b1" ELSE "b2"]]
RowC == [task |-> "Cc", cells |-> [k \in {"p1"} |-> "g2/c1"]]

Artifacts(tasks1, rows1) ==
    [root_exists |-> TRUE,
     info_exists |-> TRUE,
     group_ids |-> <<"g1", "g2">>,
     work_path |-> WorkRoot,
     catalog |-> [g \in {"g1", "g2"} |->
                    IF g = "g1" THEN tasks1 ELSE <<TaskC>>],
     matrix |-> [g \in {"g1", "g2"} |->
                    IF g = "g1" THEN rows1 ELSE <<RowC>>]]

\* Two groups, every task of a group using every key of the group.
SetupFull == Artifacts(<<TaskA, TaskB>>, <<RowA, RowB>>)
\* Task B does not use key p2: its cell in column p2 is blank.
SetupBlank == Artifacts(<<TaskA, TaskB1>>, <<RowA, RowB1>>)
\* Row 2 of the matrix of g1 names another task than entry 2 of the catalog.
SetupMismatch == Artifacts(<<TaskA, TaskB>>, <<RowA, RowX>>)
\* The subtask root was never set up.
SetupNoRoot == [SetupFull EXCEPT !.root_exists = FALSE, !.info_exists = FALSE]
\* The subtask root exists without its Manifest.
SetupNoInfo == [SetupFull EXCEPT !.info_exists = FALSE]

Setups == {SetupFull, SetupBlank, SetupMismatch, SetupNoRoot, SetupNoInfo}

\* SpecPass: the files jobs may write.
PassEntries == {"OK", "ERROR", "TBD", NotLog}
\* SpecPass: the number of files and directories jobs create after Init,
\* and how many of them while main runs.
MaxWrites == 2
MaxRaces == 1

\* The directory at an absolute path.
Lookup(abs_path) == IF abs_path \in DOMAIN fs THEN fs[abs_path] ELSE NoDir

(***************************************************************************)
(* The helpers of main.                                                    *)
(***************************************************************************)
Max(a, b) == IF a >= b THEN a ELSE b
Min(a, b) == IF a <= b THEN a ELSE b

\* The first number of a non-empty sequence.
FirstOf(s) == s[1]

RECURSIVE MaxOf(_)
MaxOf(ns) == IF Len(ns) = 1 THEN ns[1] ELSE Max(Head(ns), MaxOf(Tail(ns)))

\* task_column_width (lines 132-138), for a non-empty list of tasks
task_column_width(tasks) ==
    MaxOf([i \in 1..Len(tasks) |-> StrLen(tasks[i].name)])

RECURSIVE chain(_)
chain(seqs) == IF seqs = <<>> THEN <<>> ELSE Head(seqs) \o chain(Tail(seqs))

RECURSIVE unique_everseen(_, _)
unique_everseen(xs, seen) ==
    IF xs = <<>> THEN <<>>
    ELSE IF Head(xs) \in seen THEN unique_everseen(Tail(xs), seen)
    ELSE <<Head(xs)>> \o unique_everseen(Tail(xs), seen \cup {Head(xs)})

\* subtask_keys (lines 141-149)
subtask_keys(tasks) ==
    unique_everseen(chain([i \in 1..Len(tasks) |-> tasks[i].subtask_keys]), {})

\* A printed line.  kind is "guide", "row", "blank", "heading" or "record";
\* a row line holds its label and the values of its chunk, a record line its
\* task name, <<key, status>>, the log path and the three field widths.
NoPath == [dir |-> "", file |-> 0]
Line(kind, label, vals, path, widths) ==
    [kind |-> kind, label |-> label, vals |-> vals, path |-> path,
     widths |-> widths]
BlankLine == Line("blank", "", <<>>, NoPath, <<>>)

\* A guide that is also printed for a row that just fills one line.
print_long_row_guide_full(label_width, nvals, wrap_, char) ==
    IF nvals >= wrap_
    THEN <<Line("guide", char, <<>>, NoPath,
                <<label_width + (STATUS_WIDTH + 1) * wrap_>>)>>
    ELSE <<>>

\* print_long_row_guide (lines 170-179): the lines it prints
print_long_row_guide(label_width, nvals, wrap_, char) ==
    IF nvals > wrap_
    THEN <<Line("guide", char, <<>>, NoPath,
                <<label_width + (STATUS_WIDTH + 1) * wrap_>>)>>
    ELSE <<>>

\* Chunking that keeps the full chunks only.
chunked_strict(vals, n) ==
    [k \in 1..(Len(vals) \div n) |-> SubSeq(vals, (k - 1) * n + 1, k * n)]

\* more_itertools.chunked (line 160)
chunked(vals, n) ==
    [k \in 1..((Len(vals) + n - 1) \div n) |->
        SubSeq(vals, (k - 1) * n + 1, Min(k * n, Len(vals)))]

\* print_task_row (lines 152-167): the lines it prints.  The width of a
\* row line is that of its label field, f"{label:>{label_width}}" (line
\* 161): label_width is a minimum, a longer label is printed in full.
print_task_row(label, vals, label_width, wrap_) ==
    LET chunks == chunked(vals, wrap_)
        lab(k) == IF k = 1 THEN label ELSE ""
    IN  [k \in 1..Len(chunks) |->
            Line("row", lab(k), chunks[k], NoPath,
                 <<Max(StrLen(lab(k)), label_width)>>)]
        \o print_long_row_guide(label_width, Len(vals), wrap_, "-")

\* row.get (line 55)
row_get(row, skey) ==
    IF skey \in DOMAIN row.cells THEN row.cells[skey] ELSE None

\* A join that leaves the path of the cell relative, to be resolved in
\* another directory than the work root.
subtask_rel_path(work_path, p) == <<ElseRoot, p>>

\* The directory a path of the matrix names when it is joined with the work
\* root (line 56) and when it is used as it is, relative to the working
\* directory of the process (line 66).
subtask_abs_path(work_path, p) == <<work_path, p>>
records_scan_path(work_path, working_dir, spath) == <<working_dir, spath>>

\* The records one cell adds to non_okay_log_records (lines 62-68).  A log
\* path is the cell's path as the matrix gives it and the file in it.
cell_records(task_name, skey, spath) ==
    LET log_dct == log_paths_with_statuses(
                       Lookup(records_scan_path(disk.work_path, cwd, spath)),
                       {"OK"})
    IN  [k \in 1..Len(log_dct) |->
            [task |-> task_name, skey |-> skey,
             path |-> [dir |-> spath, file |-> log_dct[k].path],
             stat |-> log_dct[k].stat]]

\* The lines of the diagnostic section (lines 71-79).
report_lines(records) ==
    (IF records # <<>>
     THEN LET twidth == MaxOf([k \in 1..Len(records) |-> StrLen(records[k].task)])
              swidth == MaxOf([k \in 1..Len(records) |-> StrLen(records[k].skey)])
              pwidth == MaxOf([k \in 1..Len(records) |->
                                PathLen(records[k].path)])
          IN  <<Line("heading", disk.work_path, <<>>, NoPath, <<>>)>>
              \o [k \in 1..Len(records) |->
                    Line("record", records[k].task,
                         <<records[k].skey,
                           colored_status_string(records[k].stat)>>,
                         records[k].path, <<twidth, swidth, pwidth>>)]
     ELSE <<>>)
    \o <<BlankLine>>

(***************************************************************************)
(* main (lines 23-79), in steps: the start, the header of a group, the     *)
(* statuses of a row, the records of a row, the diagnostic section.  A     *)
(* step that raises leaves the exception in pc and main goes no further.   *)
(***************************************************************************)
CurGroup == disk.group_ids[gi]
CurTasks == disk.catalog[CurGroup]
CurRows == disk.matrix[CurGroup]
CurSkeys == subtask_keys(CurTasks)
CurTwidth == task_column_width(CurTasks)
CurPaths == [k \in 1..Len(CurSkeys) |-> row_get(CurRows[ri], CurSkeys[k])]

Running == pc \in {"group", "row", "records", "report"}
Aborted == pc \in {"AssertionError(path)", "FileNotFoundError",
                   "IndexError", "AssertionError(row)", "TypeError",
                   "AssertionError(status)"}

\* The subtask root main is given and the Manifest in it.
RootPath == "subtasks"
InfoPath == "subtasks/info.yaml"

\* The exception a step of main raises: the assert of lines 32-34 names the
\* path and asks whether the setup was run, read_text of line 37 raises the
\* FileNotFoundError of the operating system, which names the file only, the
\* assert of line 53 names the row and the task.
Raised(pc_) ==
    CASE pc_ = "AssertionError(path)" -> Exc("AssertionError", <<RootPath>>, TRUE)
      [] pc_ = "FileNotFoundError" -> Exc("FileNotFoundError", <<InfoPath>>, FALSE)
      [] pc_ = "IndexError" -> Exc("IndexError", <<>>, FALSE)
      [] pc_ = "AssertionError(row)" ->
            Exc("AssertionError", <<CurRows[ri].task, CurTasks[ri].name>>, FALSE)
      [] pc_ = "TypeError" -> Exc("TypeError", <<>>, FALSE)
      [] pc_ = "AssertionError(status)" -> Exc("AssertionError", <<>>, FALSE)
      [] OTHER -> NoExc

\* A start that keeps the records of an earlier call.
Main_StartKeepingRecords ==
    /\ pc = "idle"
    /\ pc' = IF ~disk.root_exists THEN "AssertionError(path)"
             ELSE IF ~disk.info_exists THEN "FileNotFoundError"
             ELSE IF disk.group_ids = <<>> THEN "report"
             ELSE "group"
    /\ exc' = Raised(pc')
    /\ gi' = 1
    /\ ri' = 0
    /\ passes' = passes + 1
    /\ UNCHANGED <<fs, status, disk, wrap, cwd, out, writes, races, prev_out,
                   since_prev, non_okay_log_records>>
    /\ UNCHANGED <<othervars, extvars>>

Main_Start ==
    /\ pc = "idle"
    /\ pc' = IF ~disk.root_exists THEN "AssertionError(path)"
             ELSE IF ~disk.info_exists THEN "FileNotFoundError"
             ELSE IF disk.group_ids = <<>> THEN "report"
             ELSE "group"
    /\ exc' = Raised(pc')
    /\ gi' = 1
    /\ ri' = 0
    /\ non_okay_log_records' = <<>>
    /\ passes' = passes + 1
    /\ UNCHANGED <<fs, status, disk, wrap, cwd, out, writes, races, prev_out,
                   since_prev>>
    /\ UNCHANGED <<othervars, extvars>>

\* Where the loops go after row r_i - 1 of the current group: the next row,
\* or the blank line that ends the group (line 69) and then the next group
\* or the diagnostic section.
AfterRow(r_i, lines) ==
    IF r_i <= Len(CurRows)
    THEN /\ ri' = r_i
         /\ gi' = gi
         /\ out' = out \o lines
         /\ pc' = "row"
    ELSE /\ ri' = 0
         /\ gi' = gi + 1
         /\ out' = out \o lines \o <<BlankLine>>
         /\ pc' = IF gi < Len(disk.group_ids) THEN "group" ELSE "report"

Main_Group ==
    /\ pc = "group"
    /\ AfterRow(1, print_long_row_guide(CurTwidth, Len(CurSkeys), wrap, "#")
                   \o print_task_row(TableKey_task, CurSkeys, CurTwidth, wrap))
    /\ UNCHANGED <<fs, status, disk, wrap, cwd, non_okay_log_records, writes,
                   races, exc>>
    /\ UNCHANGED <<pollvars, othervars, extvars>>

\* A condition that accepts every row, and the condition of the assert of
\* line 53.
row_matches_any(row, task) == TRUE
row_matches(row, task) == row.task = task.name

Main_RowStatus ==
    /\ pc = "row"
    /\ IF ri > Len(CurTasks)
       THEN pc' = "IndexError" /\ out' = out
       ELSE IF ~row_matches(CurRows[ri], CurTasks[ri])
       THEN pc' = "AssertionError(row)" /\ out' = out
       ELSE IF \E k \in 1..Len(CurPaths) : CurPaths[k] \in {Blank, None}
       THEN pc' = "TypeError" /\ out' = out
       ELSE LET subtask_stats ==
                    [k \in 1..Len(CurPaths) |->
                        parse_subtask_status(
                            Lookup(subtask_abs_path(disk.work_path, CurPaths[k])))]
            IN  IF \E k \in 1..Len(CurPaths) : subtask_stats[k] = AssertionError
                THEN pc' = "AssertionError(status)" /\ out' = out
                ELSE /\ pc' = "records"
                     /\ out' = out \o print_task_row(
                                  CurTasks[ri].name,
                                  [k \in 1..Len(CurPaths) |->
                                      colored_status_string(subtask_stats[k])],
                                  CurTwidth, wrap)
    /\ exc' = Raised(pc')
    /\ UNCHANGED <<fs, status, disk, wrap, cwd, gi, ri, non_okay_log_records,
                   writes, races>>
    /\ UNCHANGED <<pollvars, othervars, extvars>>

Main_RowRecords ==
    /\ pc = "records"
    /\ non_okay_log_records' =
           non_okay_log_records
           \o chain([k \in 1..Len(CurSkeys) |->
                       cell_records(CurTasks[ri].name, CurSkeys[k], CurPaths[k])])
    /\ AfterRow(ri + 1, <<>>)
    /\ UNCHANGED <<fs, status, disk, wrap, cwd, writes, races, exc>>
    /\ UNCHANGED <<pollvars, othervars, extvars>>

\* A last step that also leaves a file naming the logs to be checked in
\* the first subtask directory.
Main_ReportToFile ==
    /\ pc = "report"
    /\ out' = out \o report_lines(non_okay_log_records)
    /\ pc' = "done"
    /\ fs' = [fs EXCEPT ![AggPath] =
                 [exists |-> TRUE, files |-> Append(@.files, NotLog)]]
    /\ UNCHANGED <<status, disk, wrap, cwd, gi, ri, non_okay_log_records,
                   writes, races, exc>>
    /\ UNCHANGED <<pollvars, othervars, extvars>>

Main_Report ==
    /\ pc = "report"
    /\ out' = out \o report_lines(non_okay_log_records)
    /\ pc' = "done"
    /\ UNCHANGED <<fs, status, disk, wrap, cwd, gi, ri, non_okay_log_records,
                   writes, races, exc>>
    /\ UNCHANGED <<pollvars, othervars, extvars>>

(***************************************************************************)
(* The jobs: they create subtask directories under the work root and write *)
(* files into them, before and while main runs.                            *)
(***************************************************************************)
\* No subtask directory exists yet.
EmptyTree == [d \in PassDirs |-> NoDir]
\* The tree of the worked example: A/p1 and A/p2 hold OK logs only, B/p1
\* holds six logs of which one is ERROR, B/p2 holds no log.
ExampleTree ==
    [d \in PassDirs |->
        CASE d[2] = "a1" -> [exists |-> TRUE, files |-> <<"OK">>]
          [] d[2] = "a2" -> [exists |-> TRUE, files |-> <<"OK", "OK">>]
          [] d[2] = "b1" -> [exists |-> TRUE,
                             files |-> <<"OK", "OK", "ERROR", "OK", "OK", "OK">>]
          [] d[2] = "b2" -> EmptyDir
          [] OTHER -> NoDir]
InitTrees == {EmptyTree, ExampleTree}

JobStep ==
    /\ pc \notin {"done"} /\ ~Aborted
    /\ writes < MaxWrites
    /\ Running => races < MaxRaces
    /\ writes' = writes + 1
    /\ races' = IF Running THEN races + 1 ELSE races
    /\ since_prev' = since_prev + 1

JobMkdir(d) ==
    /\ JobStep
    /\ ~fs[d].exists
    /\ fs' = [fs EXCEPT ![d] = EmptyDir]
    /\ UNCHANGED <<pc, status, disk, wrap, cwd, gi, ri, out,
                   non_okay_log_records, exc, passes, prev_out>>
    /\ UNCHANGED <<othervars, extvars>>

JobWriteFile(d, e) ==
    /\ JobStep
    /\ fs[d].exists
    /\ fs' = [fs EXCEPT ![d].files = Append(@, e)]
    /\ UNCHANGED <<pc, status, disk, wrap, cwd, gi, ri, out,
                   non_okay_log_records, exc, passes, prev_out>>
    /\ UNCHANGED <<othervars, extvars>>

InitPass ==
    /\ fs \in InitTrees
    /\ disk \in Setups
    /\ wrap \in {1, DefaultWrap}
    /\ cwd \in {WorkRoot, ElseRoot}
    /\ pc = "idle"
    /\ status = "none"
    /\ gi = 0
    /\ ri = 0
    /\ out = <<>>
    /\ non_okay_log_records = <<>>
    /\ writes = 0
    /\ races = 0
    /\ exc = NoExc
    /\ passes = 0
    /\ prev_out = <<>>
    /\ since_prev = 0
    /\ row_args = NoArgs
    /\ run_statuses = NotGiven
    /\ selected = {}
    /\ InitExt

NextPass ==
    \/ Main_Start
    \/ Main_Group
    \/ Main_RowStatus
    \/ Main_RowRecords
    \/ Main_Report
    \/ \E d \in PassDirs : JobMkdir(d)
    \/ \E d \in PassDirs, e \in PassEntries : JobWriteFile(d, e)

SpecPass == InitPass /\ [][NextPass]_vars

(***************************************************************************)
(* Claims about parse_subtask_status, checked under Spec.                  *)
(***************************************************************************)
NErr == count(LogStats, "ERROR")
Mixed == Cardinality(LogStatSet) >= 2

\* C1: a non-empty collection of log statuses with at least one RUNNING and
\* at least two distinct values is aggregated to RUNNING, whatever else is
\* beside it.
C1_RunningDominates ==
    (Called /\ Mixed /\ "RUNNING" \in LogStatSet) => status = "RUNNING"

C1_Witness ==
    /\ Called
    /\ {"RUNNING", "ERROR", "OK", "WARNING"} \subseteq LogStatSet
    /\ NErr >= 3
    /\ status = "RUNNING"

\* C2: a mixed collection of N statuses without RUNNING and with exactly one
\* ERROR is aggregated to OK_1E exactly when N >= 6 (1/N < 0.2), and to
\* ERROR for every N <= 5.
C2_OneErrorTolerance ==
    (Called /\ Mixed /\ "RUNNING" \notin LogStatSet /\ NErr = 1) =>
        /\ status = "OK_1E" <=> Len(LogStats) >= 6
        /\ Len(LogStats) <= 5 => status = "ERROR"

C2_Witness ==
    /\ Called /\ "RUNNING" \notin LogStatSet /\ NErr = 1
    /\ Len(LogStats) = 6
    /\ status = "OK_1E"

\* C3: a mixed collection of N statuses without RUNNING and with exactly two
\* ERROR is aggregated to OK_2E exactly when N >= 11 (2/N < 0.2), and to
\* ERROR for every N <= 10.
C3_TwoErrorTolerance ==
    (Called /\ Mixed /\ "RUNNING" \notin LogStatSet /\ NErr = 2) =>
        /\ status = "OK_2E" <=> Len(LogStats) >= 11
        /\ Len(LogStats) <= 10 => status = "ERROR"

C3_Witness ==
    /\ Called /\ "RUNNING" \notin LogStatSet /\ NErr = 2
    /\ Len(LogStats) = 11
    /\ status = "OK_2E"

\* C4: a mixed collection without RUNNING and with three or more ERROR is
\* aggregated to ERROR, however small the fraction of errors and whatever
\* the other statuses are.
C4_ThreeOrMoreErrors ==
    (Called /\ Mixed /\ "RUNNING" \notin LogStatSet /\ NErr >= 3) =>
        status = "ERROR"

C4_Witness ==
    /\ Called /\ Mixed /\ "RUNNING" \notin LogStatSet
    /\ NErr = 3
    /\ small_error_frac(NErr, Len(LogStats))
    /\ {"WARNING", "TBD"} \subseteq LogStatSet
    /\ status = "ERROR"

\* C5: for every non-empty collection of statuses of the closed set,
\* parse_subtask_status returns a Status and never fails its assertion.
C5_RuleTableExhaustive ==
    (Called /\ LogStats # <<>>) => status \in Status

\* C6: parse_subtask_status fails its assertion exactly when the statuses
\* have at least two distinct values, no RUNNING, no ERROR, and their set is
\* not {OK, WARNING}; in every other case it returns a Status.
UnmodeledCombination ==
    /\ Mixed
    /\ "RUNNING" \notin LogStatSet
    /\ "ERROR" \notin LogStatSet
    /\ LogStatSet # {"OK", "WARNING"}

C6_AssertionExactly ==
    Called =>
        /\ pc = "raised" <=> UnmodeledCombination
        /\ status = AssertionError <=> UnmodeledCombination
        /\ ~UnmodeledCombination => status \in Status

C6_Witness ==
    /\ pc = "raised"
    /\ LogStatSet = {"OK", "WARNING", "TBD"}

\* C8: when all N >= 1 logs have the same status X, X is returned.
C8_CommonStatus ==
    (Called /\ LogStats # <<>> /\ Cardinality(LogStatSet) = 1) =>
        status \in LogStatSet

C8_Witness ==
    /\ Called
    /\ Len(LogStats) = 5
    /\ LogStatSet = {"ERROR"}
    /\ status = "ERROR"

\* C9: when the logs are OK and WARNING only, at least one of each, WARNING
\* is returned.
C9_OkAndWarning ==
    (Called /\ LogStatSet = {"OK", "WARNING"}) => status = "WARNING"

C9_Witness ==
    /\ Called
    /\ count(LogStats, "OK") >= 2
    /\ count(LogStats, "WARNING") >= 2
    /\ LogStatSet = {"OK", "WARNING"}
    /\ status = "WARNING"
(***************************************************************************)
(* Claims about the status pass, checked under SpecPass.                   *)
(***************************************************************************)
\* A directory without a log file: it does not exist, or no file in it
\* matches the log naming pattern.
HasNoLogs(dir) ==
    ~dir.exists \/ \A i \in 1..Len(dir.files) : dir.files[i] = NotLog

\* The values of the row lines among the lines printed by a step.
Printed(before, after) == SubSeq(after, Len(before) + 1, Len(after))
RowVals(lines) ==
    chain([k \in 1..Len(lines) |->
             IF lines[k].kind = "row" THEN lines[k].vals ELSE <<>>])

\* The row main is at passes the checks made before its cells are scanned
\* (lines 52-56).
RowReadable ==
    /\ ri <= Len(CurTasks)
    /\ CurRows[ri].task = CurTasks[ri].name
    /\ \A k \in 1..Len(CurPaths) : CurPaths[k] \notin {Blank, None}

CellDir(k) == Lookup(<<disk.work_path, CurPaths[k]>>)

\* C7: a subtask directory that does not exist, or that holds no file
\* matching the log naming pattern, is aggregated to TBD by the status pass
\* and raises no error: a row whose cells are all such directories is
\* printed, and in every printed row each such cell shows TBD.
C7_NoLogsIsTBD ==
    [][(pc = "row" /\ pc' # pc /\ RowReadable) =>
          /\ (\A k \in 1..Len(CurPaths) : HasNoLogs(CellDir(k)))
                => pc' = "records"
          /\ pc' = "records" =>
                \A k \in 1..Len(CurPaths) :
                    HasNoLogs(CellDir(k))
                        => RowVals(Printed(out, out'))[k] = "TBD"]_vars

C7_Witness ==
    /\ pc = "records"
    /\ races = 0
    /\ CurRows[ri] = RowA
    /\ ~CellDir(1).exists
    /\ CellDir(2).exists /\ CellDir(2).files = <<NotLog>>
    /\ out[Len(out)].kind = "row"
    /\ out[Len(out)].label = "A"
    /\ out[Len(out)].vals = <<"TBD", "TBD">>

\* The non-OK log files in the subtask working directories of the cells of
\* the whole run, each with its task, key, absolute location and status.
NonOkLogs ==
    UNION {
      UNION {
        UNION {
          LET rel == disk.matrix[disk.group_ids[g]][r].cells[k]
              dir == Lookup(<<disk.work_path, rel>>)
          IN  {[task |-> disk.matrix[disk.group_ids[g]][r].task,
                skey |-> k,
                at |-> <<disk.work_path, rel, i>>,
                stat |-> dir.files[i]] :
                  i \in {j \in 1..Len(dir.files) :
                            dir.files[j] \notin {NotLog, "OK"}}}
          : k \in DOMAIN disk.matrix[disk.group_ids[g]][r].cells}
        : r \in 1..Len(disk.matrix[disk.group_ids[g]])}
      : g \in 1..Len(disk.group_ids)}

\* The records main collected, each log path resolved to the file it names
\* for the process: a relative path is relative to the working directory.
CollectedLogs ==
    {[task |-> non_okay_log_records[n].task,
      skey |-> non_okay_log_records[n].skey,
      at |-> <<cwd, non_okay_log_records[n].path.dir,
               non_okay_log_records[n].path.file>>,
      stat |-> non_okay_log_records[n].stat] :
        n \in 1..Len(non_okay_log_records)}

\* C10: after all groups are rendered, the diagnostic records are exactly
\* one per non-OK log file of the subtask working directory (work root
\* joined with the cell's path) of each (task, key) cell, whatever the
\* working directory of the process; stated for a pass during which no job
\* wrote.
C10_DiagnosticRecords ==
    (pc = "done" /\ races = 0) =>
        /\ CollectedLogs = NonOkLogs
        /\ Len(non_okay_log_records) = Cardinality(NonOkLogs)

\* The same for a pass started in the work root.
RecordsFromWorkRoot ==
    (pc = "done" /\ races = 0 /\ cwd = disk.work_path) =>
        /\ CollectedLogs = NonOkLogs
        /\ Len(non_okay_log_records) = Cardinality(NonOkLogs)

(***************************************************************************)
(* SpecLoad: one pass of main over a tree that no job changes while main   *)
(* runs; jobs write before the pass starts only.  The artifacts include a  *)
(* mismatch of matrix and catalog in the second group.                     *)
(***************************************************************************)
MaxLoadWrites == 1

RowXc == [task |-> "X", cells |-> [k \in {"p1"} |-> "g2/c1"]]
\* Row 1 of the matrix of g2 names another task than entry 1 of the catalog.
SetupMismatchG2 ==
    [SetupFull EXCEPT !.matrix = [@ EXCEPT !["g2"] = <<RowXc>>]]
\* The matrix of g1 lacks the row of task B, and it has a row more than the
\* catalog has tasks.
SetupFewerRows == Artifacts(<<TaskA, TaskB>>, <<RowA>>)
SetupMoreRows == Artifacts(<<TaskA>>, <<RowA, RowB>>)
LoadSetups == Setups \cup {SetupMismatchG2, SetupFewerRows, SetupMoreRows}

\* The run command is between its call and the call of subtasks.run: it
\* waits for pixi (cli.py, line 157) or is about to parse its statuses or
\* to select, while other processes go on.
RunWaiting == {"pixi", "pixi(tar)", "parse", "parse(tar)", "call", "call(tar)"}

\* A job writes before main is called, or while the run command waits.
EarlyJobStep ==
    /\ pc = "idle" \/ pc \in RunWaiting
    /\ passes = 0
    /\ writes < MaxLoadWrites
    /\ writes' = writes + 1
    /\ since_prev' = since_prev + 1
    /\ UNCHANGED <<pc, status, disk, wrap, cwd, gi, ri, out,
                   non_okay_log_records, races, exc, passes, prev_out>>
    /\ UNCHANGED <<othervars, extvars>>

EarlyMkdir(d) ==
    /\ EarlyJobStep
    /\ ~fs[d].exists
    /\ fs' = [fs EXCEPT ![d] = EmptyDir]

EarlyWriteFile(d, e) ==
    /\ EarlyJobStep
    /\ fs[d].exists
    /\ fs' = [fs EXCEPT ![d].files = Append(@, e)]

\* The example tree after the subtask of task Cc failed.
FailedTree == [ExampleTree EXCEPT ![<<WorkRoot, "g2/c1">>] =
                  [exists |-> TRUE, files |-> <<"ERROR">>]]
LoadTrees == InitTrees \cup {FailedTree}

InitLoad ==
    /\ fs \in LoadTrees
    /\ disk \in LoadSetups
    /\ wrap \in {1, DefaultWrap}
    /\ cwd \in {WorkRoot, ElseRoot}
    /\ pc = "idle"
    /\ status = "none"
    /\ gi = 0
    /\ ri = 0
    /\ out = <<>>
    /\ non_okay_log_records = <<>>
    /\ writes = 0
    /\ races = 0
    /\ exc = NoExc
    /\ passes = 0
    /\ prev_out = <<>>
    /\ since_prev = 0
    /\ row_args = NoArgs
    /\ run_statuses = NotGiven
    /\ selected = {}
    /\ InitExt

NextLoad ==
    \/ Main_Start
    \/ Main_Group
    \/ Main_RowStatus
    \/ Main_RowRecords
    \/ Main_Report
    \/ \E d \in PassDirs : EarlyMkdir(d)
    \/ \E d \in PassDirs, e \in PassEntries : EarlyWriteFile(d, e)

SpecLoad == InitLoad /\ [][NextLoad]_vars

(***************************************************************************)
(* Claims about the failures of a pass, checked under SpecLoad.            *)
(***************************************************************************)
\* The lines of the report: header rows, task rows, dividers and the lines
\* of the diagnostic section.
ReportLines(lines) ==
    {i \in 1..Len(lines) :
        lines[i].kind \in {"row", "guide", "heading", "record"}}

\* C11: a pass that aborts has printed nothing of the report: no header row,
\* no task row, no divider and no diagnostic line was emitted before the
\* abort, whatever the fatal condition was.
C11_AbortPrintsNothing == Aborted => ReportLines(out) = {}

\* Row i of the matrix of group g names another task than entry i of the
\* catalog of the group.
MismatchAt(g, i) ==
    /\ i <= Len(disk.matrix[g])
    /\ i <= Len(disk.catalog[g])
    /\ disk.matrix[g][i].task # disk.catalog[g][i].name

\* main is past the assert of row i of the g-th group (line 53): it is at
\* a later row or group, it has printed the row, or it ended in the row
\* after the assert, with the TypeError of line 56 or the AssertionError
\* that parse_subtask_status raises through line 57.
Beyond(g, i) ==
    /\ passes >= 1
    /\ \/ gi > g
       \/ gi = g /\ ri > i
       \/ gi = g /\ ri = i
             /\ pc \in {"records", "TypeError", "AssertionError(status)"}

\* The number of task rows and of header rows among printed lines.
TaskRows(lines) ==
    Cardinality({k \in 1..Len(lines) :
                    /\ lines[k].kind = "row"
                    /\ lines[k].label \notin {"", TableKey_task}})
HeaderRows(lines) ==
    Cardinality({k \in 1..Len(lines) :
                    lines[k].kind = "row" /\ lines[k].label = TableKey_task})
\* The number of rows in the matrices of the groups before the g-th.
RECURSIVE RowsBefore(_)
RowsBefore(g) ==
    IF g <= 1 THEN 0
    ELSE RowsBefore(g - 1) + Len(disk.matrix[disk.group_ids[g - 1]])

C12_NothingLater ==
    \A g \in 1..Len(disk.group_ids) :
        \A i \in 1..Len(disk.matrix[disk.group_ids[g]]) :
            MismatchAt(disk.group_ids[g], i) =>
                /\ ~Beyond(g, i)
                /\ pc \notin {"report", "done"}
                /\ TaskRows(out) <= RowsBefore(g) + (i - 1)
                /\ HeaderRows(out) <= g
                /\ \A k \in 1..Len(out) : out[k].kind \notin {"heading", "record"}
                /\ non_okay_log_records # <<>> =>
                       \A k \in 1..Len(non_okay_log_records) :
                           non_okay_log_records[k].task
                               # disk.catalog[disk.group_ids[g]][i].name

C12_Raises ==
    (pc = "row" /\ pc' # pc /\ MismatchAt(CurGroup, ri)) =>
        /\ pc' = "AssertionError(row)"
        /\ exc'.type = "AssertionError"
        /\ exc'.names = <<CurRows[ri].task, CurTasks[ri].name>>
        /\ out' = out

C12_Final ==
    pc = "AssertionError(row)" =>
        UNCHANGED <<pc, exc, out, gi, ri, non_okay_log_records>>

\* C12: when row i of a group's matrix names another task than entry i of
\* the group's catalog, the pass fails at that row with an error naming the
\* row's task and the catalog's task, and the whole pass ends there: no
\* later row, no later group and no diagnostic section is rendered.
C12_IntegrityMismatch ==
    /\ []C12_NothingLater
    /\ [][C12_Raises /\ C12_Final]_vars

\* The pass ended at row 2 of g1 after printing the row of task A, and it
\* ended at row 1 of g2 after printing the two rows of g1.
C12_Witness ==
    /\ pc = "AssertionError(row)"
    /\ gi = 2
    /\ ri = 1
    /\ exc.names = <<"X", "Cc">>
    /\ TaskRows(out) >= 2

\* The path whose absence stops the pass: the subtask root, or the Manifest
\* in an existing root.
MissingPath ==
    IF ~disk.root_exists THEN RootPath
    ELSE IF ~disk.info_exists THEN InfoPath
    ELSE NoPath

\* C13: when the subtask root is absent, or present without its Manifest,
\* the pass ends with a failure that names the missing path and tells the
\* operator to run the setup first, before it reads a catalog or a matrix
\* and before it prints a line.
C13_PrerequisiteMissing ==
    (passes >= 1 /\ (~disk.root_exists \/ ~disk.info_exists)) =>
        /\ Aborted
        /\ exc.names = <<MissingPath>>
        /\ exc.hint
        /\ pc \notin {"group", "row", "records", "report", "done"}
        /\ out = <<>>

\* The row main is at has a blank cell: its task does not use one of the
\* keys of the group.
BlankCellInRow ==
    /\ gi \in 1..Len(disk.group_ids)
    /\ ri \in 1..Len(CurRows)
    /\ \E k \in 1..Len(CurSkeys) : CurPaths[k] = Blank

\* C14: the blank cell of a task that does not use a key of its group is
\* no Status and no failure: the pass does not end at a row because the row
\* has a blank cell, it goes on with the remaining cells.
C14_BlankCellSkipped == BlankCellInRow => ~Aborted

\* The Status that the contents of a directory determine by the rules of
\* section 4.1 of the specification, counted over the set of its logs.
StatusOfContents(dir) ==
    LET logs == IF dir.exists
                THEN {i \in 1..Len(dir.files) : dir.files[i] # NotLog}
                ELSE {}
        with(s) == {i \in logs : dir.files[i] = s}
        n == Cardinality(logs)
        e == Cardinality(with("ERROR"))
    IN  IF logs = {} THEN "TBD"
        ELSE IF \E s \in Status : with(s) = logs
          THEN CHOOSE s \in Status : with(s) = logs
        ELSE IF with("RUNNING") # {} THEN "RUNNING"
        ELSE IF e \in {1, 2} /\ 5 * e < n
          THEN (IF e = 1 THEN "OK_1E" ELSE "OK_2E")
        ELSE IF e > 0 THEN "ERROR"
        ELSE IF with("OK") \cup with("WARNING") = logs THEN "WARNING"
        ELSE "(no status)"

(***************************************************************************)
(* SpecRun: the setup and the run command (cli.py, lines 89-167).  The run *)
(* command starts the program pixi and waits for it (line 157), which      *)
(* raises when the program cannot be started or its output not decoded,    *)
(* then parses its option --statuses, a comma-separated list of statuses,  *)
(* "TBD" when not given (lines 126-132 and 165), and calls subtasks.run.   *)
(* subtasks.run and subtasks.setup are not part of the sources at hand.    *)
(* Following section 4.3 of the specification subtasks.run selects the     *)
(* directories whose Status, by parse_subtask_status, is one of the given  *)
(* ones; a directory for which parse_subtask_status gives no Status is     *)
(* none of them.  A subtask root that was not set up is fatal (sections 6  *)
(* and 7).  After the selection the selected jobs run and write logs into  *)
(* their directories, and with --tar the subtask data are archived when    *)
(* they have ended.  Following section 6, subtasks.setup writes the        *)
(* Manifest, the catalogs and the matrices, and the subtask directories.   *)
(***************************************************************************)
MaxRunWrites == 2
\* A default of OK in place of TBD.
default_statuses_ok == <<"OK">>

\* The default of --statuses.
default_statuses == <<"TBD">>

ValueError == <<"ValueError">>

\* list(map(Status, statuses.split(","))): Status(v) raises ValueError for a
\* string that is no status.
run_statuses_of(option) ==
    LET given == IF option = NotGiven THEN default_statuses ELSE option
    IN  IF \E k \in 1..Len(given) : given[k] \notin Status
        THEN ValueError
        ELSE given

\* The subtask directories of the tasks: for every group and every row the
\* cells of the keys the task uses.
RunDirs ==
    {<<disk.work_path, disk.matrix[g][i].cells[disk.catalog[g][i].subtask_keys[k]]>> :
        <<g, i, k>> \in
            {x \in {"g1", "g2"} \X (1..2) \X (1..2) :
                /\ x[2] <= Len(disk.matrix[x[1]])
                /\ x[2] <= Len(disk.catalog[x[1]])
                /\ x[3] <= Len(disk.catalog[x[1]][x[2]].subtask_keys)}}

rerun_select(targets) ==
    {d \in RunDirs :
        \E k \in 1..Len(targets) : parse_subtask_status(Lookup(d)) = targets[k]}

\* subtasks.setup(...) (lines 101-107): the artifacts are written where no
\* subtask root was; the subtask directories are made with them or left to
\* the jobs.  The setup command is a process of its own: it can run before
\* the run command is called or while that one waits.
SubtasksSetup(made, dirs) ==
    /\ pc = "idle" \/ pc \in RunWaiting
    /\ ~disk.root_exists
    /\ disk' = made
    /\ fs' = IF dirs
             THEN [d \in DOMAIN fs |-> IF fs[d].exists THEN fs[d] ELSE EmptyDir]
             ELSE fs
    /\ UNCHANGED <<pc, status, wrap, cwd, gi, ri, out,
                   non_okay_log_records, writes, races, exc>>
    /\ UNCHANGED <<pollvars, othervars, extvars>>

RunFrame ==
    /\ UNCHANGED <<fs, status, disk, wrap, cwd, gi, ri, out,
                   non_okay_log_records, writes, races, exc, row_args>>
    /\ UNCHANGED <<pollvars, extvars>>

\* The run command is called with its options (lines 140-146); click hands
\* over the declared default for an option that is not given.
Run_Call(option, tar) ==
    /\ pc = "idle"
    /\ pc' = IF tar THEN "pixi(tar)" ELSE "pixi"
    /\ run_statuses' = option
    /\ selected' = {}
    /\ RunFrame

\* subprocess.run(["pixi", "shell-hook"], capture_output=True, text=True)
\* returns or raises (line 157): FileNotFoundError with no pixi on the
\* PATH, PermissionError with one that is not executable, OSError (exec
\* format error) with one that is no program, UnicodeDecodeError when its
\* output is no text.  An exit status other than 0 raises nothing.
Run_Pixi(outcome) ==
    /\ pc \in {"pixi", "pixi(tar)"}
    /\ pc' = CASE outcome = "absent" -> "FileNotFoundError(pixi)"
               [] outcome = "not executable" -> "PermissionError(pixi)"
               [] outcome = "no program" -> "OSError(pixi)"
               [] outcome = "no text" -> "UnicodeDecodeError(pixi)"
               [] outcome = "runs" ->
                      IF pc = "pixi(tar)" THEN "parse(tar)" ELSE "parse"
    /\ UNCHANGED <<run_statuses, selected>>
    /\ RunFrame

\* statuses=list(map(Status, statuses.split(","))) (line 165), evaluated
\* before subtasks.run is called.
Run_Parse ==
    /\ pc \in {"parse", "parse(tar)"}
    /\ run_statuses' = run_statuses_of(run_statuses)
    /\ pc' = IF run_statuses' = ValueError THEN "ValueError"
             ELSE IF pc = "parse(tar)" THEN "call(tar)" ELSE "call"
    /\ UNCHANGED selected
    /\ RunFrame

\* subtasks.run (called at lines 161-167) reads the artifacts and selects.
Run_Select ==
    /\ pc \in {"call", "call(tar)"}
    /\ IF ~disk.info_exists
       THEN pc' = "fatal(no root)" /\ selected' = {}
       ELSE /\ selected' = rerun_select(run_statuses)
            /\ pc' = IF pc = "call(tar)" THEN "selected(tar)" ELSE "selected"
    /\ UNCHANGED run_statuses
    /\ RunFrame

\* A job that subtasks.run started writes a log into its directory, which
\* it makes when it is not there.
RunJobWrite(d, e) ==
    /\ pc \in {"selected", "selected(tar)", "running", "running(tar)"}
    /\ d \in selected
    /\ d \in DOMAIN fs
    /\ writes < MaxRunWrites
    /\ writes' = writes + 1
    /\ fs' = [fs EXCEPT ![d] =
                 [exists |-> TRUE,
                  files |-> Append(IF fs[d].exists THEN fs[d].files ELSE <<>>, e)]]
    /\ pc' = IF pc \in {"selected", "running"} THEN "running"
                                                ELSE "running(tar)"
    /\ UNCHANGED <<status, disk, wrap, cwd, gi, ri, out,
                   non_okay_log_records, races, exc>>
    /\ UNCHANGED <<pollvars, othervars, extvars>>

\* The jobs have ended and subtasks.run returns (tar is False).
RunEnd ==
    /\ pc \in {"selected", "running"}
    /\ pc' = "ran"
    /\ UNCHANGED <<fs, status, disk, wrap, cwd, gi, ri, out,
                   non_okay_log_records, writes, races, exc>>
    /\ UNCHANGED <<pollvars, othervars, extvars>>

\* The jobs have ended and the subtask data are archived (tar is True); the
\* archive is a copy, the tree and the artifacts stay as they are.
RunArchive ==
    /\ pc \in {"selected(tar)", "running(tar)"}
    /\ pc' = "archived"
    /\ UNCHANGED <<fs, status, disk, wrap, cwd, gi, ri, out,
                   non_okay_log_records, writes, races, exc>>
    /\ UNCHANGED <<pollvars, othervars, extvars>>

InitRun ==
    /\ fs \in InitTrees
    /\ disk \in {SetupNoRoot, SetupFull, SetupBlank}
    /\ wrap = DefaultWrap
    /\ cwd = WorkRoot
    /\ pc = "idle"
    /\ status = "none"
    /\ gi = 0
    /\ ri = 0
    /\ out = <<>>
    /\ non_okay_log_records = <<>>
    /\ writes = 0
    /\ races = 0
    /\ exc = NoExc
    /\ passes = 0
    /\ prev_out = <<>>
    /\ since_prev = 0
    /\ row_args = NoArgs
    /\ run_statuses = NotGiven
    /\ selected = {}
    /\ InitExt

NextRun ==
    \/ \E made \in {SetupFull, SetupBlank}, dirs \in BOOLEAN :
           SubtasksSetup(made, dirs)
    \/ \E option \in {NotGiven, <<"TBD">>, <<"ERROR", "OK_1E">>,
                       <<"OK", "TBD">>, <<"FAILED">>},
          tar \in BOOLEAN :
           Run_Call(option, tar)
    \/ \E outcome \in {"runs", "absent", "not executable", "no program",
                        "no text"} :
           Run_Pixi(outcome)
    \/ Run_Parse
    \/ Run_Select
    \/ \E d \in PassDirs, e \in PassEntries : RunJobWrite(d, e)
    \/ RunEnd
    \/ RunArchive
    \/ \E d \in PassDirs : EarlyMkdir(d)
    \/ \E d \in PassDirs, e \in PassEntries : EarlyWriteFile(d, e)

SpecRun == InitRun /\ [][NextRun]_vars

\* The directories whose contents determine one of the target statuses.
WithStatusIn(targets) ==
    {d \in RunDirs :
        \E k \in 1..Len(targets) : StatusOfContents(Lookup(d)) = targets[k]}

\* The selection made is the set of the directories whose Status is one of
\* the targets handed over.
C15_Selected ==
    pc \in {"selected", "selected(tar)"} =>
        /\ selected = WithStatusIn(run_statuses)
        /\ \A d \in RunDirs \ selected :
               \A k \in 1..Len(run_statuses) :
                   StatusOfContents(Lookup(d)) # run_statuses[k]

\* The targets handed over are the given ones, TBD when none are given, and
\* the step that selects leaves the tree and the artifacts as they are.
C15_Step ==
    /\ (pc \in {"parse", "parse(tar)"} /\ pc' \in {"call", "call(tar)"}) =>
           run_statuses' = (IF run_statuses = NotGiven THEN <<"TBD">>
                                                      ELSE run_statuses)
    /\ (pc \in {"call", "call(tar)"} /\ pc' # pc) =>
           (fs' = fs /\ disk' = disk /\ run_statuses' = run_statuses)

MainStep ==
    <<pc, gi, ri, out, non_okay_log_records, exc>>'
        # <<pc, gi, ri, out, non_okay_log_records, exc>>

\* C16: a pass never creates, changes or deletes the Manifest, a catalog, a
\* matrix, a subtask directory or a log: no step of main changes the
\* persisted state, so whether the pass completes or aborts the state after
\* it is the one before it, up to what the jobs wrote meanwhile.
C16_ReadOnly ==
    /\ [](writes = 0 => (fs \in InitTrees /\ disk \in Setups))
    /\ [][MainStep => (fs' = fs /\ disk' = disk)]_vars

\* A completed pass that printed a report over the example tree, which is
\* as it was.
C16_Witness ==
    /\ pc = "done"
    /\ writes = 0
    /\ fs = ExampleTree
    /\ disk = SetupFull
    /\ Len(out) > 1

(***************************************************************************)
(* SpecRow: print_task_row on rows of up to MaxRowVals values with wrap    *)
(* widths of 1 to MaxRowWrap.                                              *)
(***************************************************************************)
MaxRowVals == 7
MaxRowWrap == 3

RowAppend(v) ==
    /\ pc = "idle"
    /\ Len(row_args.vals) < MaxRowVals
    /\ row_args' = [row_args EXCEPT !.vals = Append(@, v)]
    /\ UNCHANGED <<fs, pc, status, disk, wrap, cwd, gi, ri, out,
                   non_okay_log_records, writes, races, exc, run_statuses,
                   selected>>
    /\ UNCHANGED <<pollvars, extvars>>

PrintTaskRow ==
    /\ pc = "idle"
    /\ out' = print_task_row(row_args.label, row_args.vals,
                             row_args.label_width, wrap)
    /\ pc' = "printed"
    /\ UNCHANGED <<fs, status, disk, wrap, cwd, gi, ri,
                   non_okay_log_records, writes, races, exc, row_args,
                   run_statuses, selected>>
    /\ UNCHANGED <<pollvars, extvars>>

InitRow ==
    /\ row_args \in {[label |-> l, vals |-> <<>>, label_width |-> w] :
                        l \in {"B", TableKey_task}, w \in {1, 4}}
    /\ wrap \in 1..MaxRowWrap
    /\ fs = EmptyTree
    /\ disk = SetupFull
    /\ cwd = WorkRoot
    /\ pc = "idle"
    /\ status = "none"
    /\ gi = 0
    /\ ri = 0
    /\ out = <<>>
    /\ non_okay_log_records = <<>>
    /\ writes = 0
    /\ races = 0
    /\ exc = NoExc
    /\ passes = 0
    /\ prev_out = <<>>
    /\ since_prev = 0
    /\ run_statuses = NotGiven
    /\ selected = {}
    /\ InitExt

NextRow ==
    \/ \E v \in {"OK", "TBD"} : RowAppend(v)
    \/ PrintTaskRow

SpecRow == InitRow /\ [][NextRow]_vars

\* The chunk lines among the printed lines.
ChunkLines == SelectSeq(out, LAMBDA l : l.kind = "row")

\* The row was printed on ceil(n / W) chunk lines: every chunk holds W
\* values but the last, which holds the rest, the chunks in order are the
\* row, and the label is on the first chunk line only.
ChunksOfRow ==
    /\ Len(ChunkLines) * wrap >= Len(row_args.vals)
    /\ (Len(ChunkLines) - 1) * wrap < Len(row_args.vals)
    /\ \A k \in 1..Len(ChunkLines) :
           /\ Len(ChunkLines[k].vals) \in 1..wrap
           /\ k < Len(ChunkLines) => Len(ChunkLines[k].vals) = wrap
           /\ ChunkLines[k].label = (IF k = 1 THEN row_args.label ELSE "")
    /\ chain([k \in 1..Len(ChunkLines) |-> ChunkLines[k].vals])
           = row_args.vals

\* C17 as claimed: print_task_row prints a row of n values with wrap W >= 1
\* on exactly ceil(n / W) chunk lines holding the values in order, the label
\* is on the first chunk line only and every continuation line carries a
\* blank label of the same width as the label of the first line.
C17_SameWidth ==
    pc = "printed" =>
        /\ ChunksOfRow
        /\ \A k \in 1..Len(ChunkLines) :
               ChunkLines[k].widths = ChunkLines[1].widths

\* C17: print_task_row prints a row of n values with wrap W >= 1 on exactly
\* ceil(n / W) chunk lines holding the values in order, the label is on the
\* first chunk line only, the label field of the first line is as wide as
\* label_width or as the label when that is longer, and every continuation
\* line carries a blank label of exactly label_width: of the same width as
\* the first if and only if the label is no longer than label_width.
C17_WrappedChunks ==
    pc = "printed" =>
        /\ ChunksOfRow
        /\ \A k \in 1..Len(ChunkLines) :
               /\ ChunkLines[k].widths[1] >= row_args.label_width
               /\ ChunkLines[k].widths[1] >= StrLen(ChunkLines[k].label)
               /\ ChunkLines[k].widths[1]
                      \in {row_args.label_width, StrLen(ChunkLines[k].label)}
               /\ k > 1 => ChunkLines[k].widths = <<row_args.label_width>>
               /\ (ChunkLines[k].widths = ChunkLines[1].widths)
                      <=> (k = 1 \/ StrLen(row_args.label) <= row_args.label_width)

\* The label "task" with label_width 1 over seven values with wrap 3 was
\* printed as chunks of 3, 3 and 1: the first line has a label field of 4,
\* the two blank ones of 1.
C17_Witness ==
    /\ pc = "printed"
    /\ row_args.label = TableKey_task
    /\ row_args.label_width = 1
    /\ Len(row_args.vals) = 7
    /\ wrap = 3
    /\ Len(ChunkLines) = 3
    /\ Len(ChunkLines[3].vals) = 1
    /\ ChunkLines[2].label = ""
    /\ ChunkLines[1].widths = <<4>>
    /\ ChunkLines[2].widths = <<1>>
    /\ ChunkLines[3].widths = <<1>>

(***************************************************************************)
(* Claims about the table of a group, checked under SpecLoad.              *)
(***************************************************************************)
\* The group main is at has more columns than fit on a line.
Wide == Len(CurSkeys) > wrap
\* The width of a column with the space that separates it from the next.
ColumnWidth == STATUS_WIDTH + 1
\* The dividers among printed lines, and their common form.
Guides(lines) == {k \in 1..Len(lines) : lines[k].kind = "guide"}
IsGuide(line) ==
    /\ line.kind = "guide"
    /\ line.widths = <<CurTwidth + ColumnWidth * wrap>>

\* The header of the group: a divider, the chunk lines of the header row
\* and a divider when the group is wide, the chunk lines alone otherwise.
C18_Header ==
    (pc = "group" /\ MainStep) =>
        LET lines == Printed(out, out')
            last == CHOOSE k \in 0..Len(lines) :
                        /\ \A j \in 1..k : lines[j].kind # "blank"
                        /\ k < Len(lines) => lines[k + 1].kind = "blank"
        IN  IF Wide
            THEN /\ Guides(lines) = {1, last}
                 /\ last > 2
                 /\ IsGuide(lines[1]) /\ IsGuide(lines[last])
                 /\ \A k \in 2..(last - 1) :
                        lines[k].kind = "row"
                        /\ lines[k].label \in {TableKey_task, ""}
            ELSE Guides(lines) = {}

\* A task row: its chunk lines and a divider when the group is wide, its
\* chunk lines alone otherwise.
C18_TaskRow ==
    (pc = "row" /\ pc' = "records") =>
        LET lines == Printed(out, out')
        IN  IF Wide
            THEN /\ Guides(lines) = {Len(lines)}
                 /\ Len(lines) > 1
                 /\ IsGuide(lines[Len(lines)])
                 /\ \A k \in 1..(Len(lines) - 1) : lines[k].kind = "row"
            ELSE Guides(lines) = {}

\* No other step prints a divider.
C18_Elsewhere ==
    (pc \notin {"group", "row"} /\ MainStep) => Guides(Printed(out, out')) = {}

\* C18: in the table of a group a divider is printed exactly when the group
\* has more columns than the wrap width W: then one divider precedes the
\* header row, one follows the header row and one follows every task row,
\* each as long as the label width plus W times the width of a column;
\* with at most W columns no divider is printed anywhere.
C18_Dividers == [][C18_Header /\ C18_TaskRow /\ C18_Elsewhere]_vars

\* Two columns with wrap 1: the header and the row of task A were printed,
\* and the last line is the divider that follows the row.
C18_Witness ==
    /\ pc = "records"
    /\ gi = 1
    /\ wrap = 1
    /\ Len(CurSkeys) = 2
    /\ out[1].kind = "guide" /\ out[1].label = "#"
    /\ out[Len(out)].kind = "guide" /\ out[Len(out)].label = "-"
    /\ Cardinality(Guides(out)) = 3

(***************************************************************************)
(* SpecPoll: main called again and again over a tree in which jobs start   *)
(* logs and finish them: a log that is being written parses as RUNNING,    *)
(* a finished one as OK or ERROR.                                          *)
(***************************************************************************)
MaxPasses == 2
MaxPollWrites == 1

\* The example tree with a job at work in a1.
PollTree == [ExampleTree EXCEPT ![AggPath] = [exists |-> TRUE,
                                              files |-> <<"RUNNING">>]]
\* The directories with jobs at work.
PollDirs == {<<WorkRoot, "a1">>, <<WorkRoot, "b1">>}

PollJobStep ==
    /\ pc = "idle" \/ Running
    /\ writes < MaxPollWrites
    /\ Running => races < MaxRaces
    /\ writes' = writes + 1
    /\ races' = IF Running THEN races + 1 ELSE races
    /\ since_prev' = since_prev + 1
    /\ UNCHANGED <<pc, status, disk, wrap, cwd, gi, ri, out,
                   non_okay_log_records, exc, passes, prev_out>>
    /\ UNCHANGED <<othervars, extvars>>

\* A job starts a log.
PollStartLog(d) ==
    /\ PollJobStep
    /\ fs[d].exists
    /\ fs' = [fs EXCEPT ![d].files = Append(@, "RUNNING")]

\* A job finishes the log it was writing.
PollFinishLog(d, i, e) ==
    /\ PollJobStep
    /\ i \in 1..Len(fs[d].files)
    /\ fs[d].files[i] = "RUNNING"
    /\ fs' = [fs EXCEPT ![d].files[i] = e]

\* The call of main returned or raised, and main is called again.
Main_Again ==
    /\ pc = "done" \/ Aborted
    /\ passes < MaxPasses
    /\ pc' = "idle"
    /\ prev_out' = out
    /\ out' = <<>>
    /\ since_prev' = races
    /\ races' = 0
    /\ exc' = NoExc
    /\ gi' = 0
    /\ ri' = 0
    /\ UNCHANGED <<fs, status, disk, wrap, cwd, non_okay_log_records, writes,
                   passes>>
    /\ UNCHANGED <<othervars, extvars>>

InitPoll ==
    /\ fs = PollTree
    /\ disk \in Setups
    /\ wrap \in {1, DefaultWrap}
    /\ cwd \in {WorkRoot, ElseRoot}
    /\ pc = "idle"
    /\ status = "none"
    /\ gi = 0
    /\ ri = 0
    /\ out = <<>>
    /\ non_okay_log_records = <<>>
    /\ writes = 0
    /\ races = 0
    /\ exc = NoExc
    /\ passes = 0
    /\ prev_out = <<>>
    /\ since_prev = 0
    /\ row_args = NoArgs
    /\ run_statuses = NotGiven
    /\ selected = {}
    /\ InitExt

NextPoll ==
    \/ Main_Start
    \/ Main_Group
    \/ Main_RowStatus
    \/ Main_RowRecords
    \/ Main_Report
    \/ Main_Again
    \/ \E d \in PollDirs : PollStartLog(d)
    \/ \E d \in PollDirs :
          \E i \in 1..Len(fs[d].files), e \in {"OK", "ERROR"} :
              PollFinishLog(d, i, e)

SpecPoll == InitPoll /\ [][NextPoll]_vars

\* C19: two passes one after the other over the same Manifest, catalogs,
\* matrices and tree, nothing of which changed since the first one
\* started, print the same lines in the same order, diagnostic records
\* included: nothing of the first call is left in the second.
C19_Idempotent ==
    (passes >= 2 /\ since_prev = 0 /\ (pc = "done" \/ Aborted)) =>
        out = prev_out

\* A second pass over the unchanged tree printed the report with its
\* diagnostic section as the first one did.
C19_Witness ==
    /\ passes = 2
    /\ since_prev = 0
    /\ pc = "done"
    /\ out = prev_out
    /\ \E k \in 1..Len(out) : out[k].kind = "record"

\* The statuses printed for task name in lines: those of the line with the
\* task's label and of the chunk lines with an empty label that follow it
\* (print_task_row, lines 162-167); none when no line has the label.
RowOf(name, lines) ==
    IF \A i \in 1..Len(lines) : ~(lines[i].kind = "row" /\ lines[i].label = name)
    THEN <<>>
    ELSE
    LET first == CHOOSE i \in 1..Len(lines) :
                     /\ lines[i].kind = "row" /\ lines[i].label = name
                     /\ \A m \in 1..(i - 1) :
                            ~(lines[m].kind = "row" /\ lines[m].label = name)
        last == CHOOSE j \in first..Len(lines) :
                    /\ \A m \in (first + 1)..j :
                           lines[m].kind = "row" /\ lines[m].label = ""
                    /\ j < Len(lines) =>
                           ~(lines[j + 1].kind = "row" /\ lines[j + 1].label = "")
    IN  RowVals(SubSeq(lines, first, last))

\* The pass that has just completed printed for every cell the Status the
\* contents of the cell's directory, as they are now, determine.
ReportsFinalContents ==
    \A g \in 1..Len(disk.group_ids) :
        LET tasks == disk.catalog[disk.group_ids[g]]
            rows == disk.matrix[disk.group_ids[g]]
            skeys == subtask_keys(tasks)
        IN  \A r \in 1..Len(tasks), k \in 1..Len(skeys) :
                RowOf(tasks[r].name, out)[k] =
                    StatusOfContents(
                        Lookup(<<disk.work_path, row_get(rows[r], skeys[k])>>))

\* C20: what a pass reported while jobs were writing does not last: a pass
\* started after the logs stopped changing (no log was written since it
\* started) has, when it completes, reported for every cell the Status
\* that the final contents of the cell's directory determine, whether it
\* is the first pass or follows one that reported otherwise, and from
\* whatever directory it was started.
C20_SelfCorrecting ==
    (pc = "done" /\ races = 0) => ReportsFinalContents

\* The first pass reported RUNNING for the cell of the log a job was
\* writing; the job has finished it, no job can write any more, and the
\* second pass has completed with OK reported for the cell.
C20_Witness ==
    /\ passes = 2
    /\ races = 0
    /\ writes = MaxPollWrites
    /\ wrap = DefaultWrap
    /\ pc = "done"
    /\ RowOf("A", prev_out) = <<"RUNNING", "OK">>
    /\ RowOf("A", out) = <<"OK", "OK">>
    /\ Lookup(AggPath).files = <<"OK">>

(***************************************************************************)
(* Claims about the diagnostic section, checked under SpecLoad.            *)
(***************************************************************************)
\* The record lines printed.
RecordLines == SelectSeq(out, LAMBDA l : l.kind = "record")
\* The lengths of the three padded fields of a record line: the task name,
\* the subtask key and the log path.
FieldLens(line) ==
    <<StrLen(line.label), StrLen(line.vals[1]), PathLen(line.path)>>
\* The largest length of field f over the record lines.
WidestField(f) ==
    CHOOSE n \in {FieldLens(RecordLines[k])[f] : k \in 1..Len(RecordLines)} :
        \A k \in 1..Len(RecordLines) : FieldLens(RecordLines[k])[f] <= n

\* C21: a completed pass over a tree with no log of a status other than OK
\* prints no heading and no record in the diagnostic section, only the
\* blank line that ends it; when records are listed, every record line pads
\* the task name, the subtask key and the log path to the largest length of
\* that field over all the listed records, so that each field starts at the
\* same offset on every record line.
C21_DiagnosticSection ==
    pc = "done" =>
        /\ out[Len(out)] = BlankLine
        /\ NonOkLogs = {} =>
               \A k \in 1..Len(out) : out[k].kind \notin {"heading", "record"}
        /\ \A k \in 1..Len(RecordLines) :
               /\ RecordLines[k].widths
                      = <<WidestField(1), WidestField(2), WidestField(3)>>
               /\ \A f \in 1..3 :
                      FieldLens(RecordLines[k])[f] <= RecordLines[k].widths[f]
        /\ RecordLines # <<>> =>
               Cardinality({k \in 1..Len(out) : out[k].kind = "heading"}) = 1

\* A report with two records whose task names and log paths differ in
\* length.
C21_Witness ==
    /\ pc = "done"
    /\ Len(RecordLines) = 2
    /\ FieldLens(RecordLines[1]) # FieldLens(RecordLines[2])
    /\ RecordLines[1].widths = <<2, 2, 14>>

\* A report over a tree with OK logs only: the section is its blank line.
C21_WitnessAllOk ==
    /\ pc = "done"
    /\ NonOkLogs = {}
    /\ fs # EmptyTree
    /\ out[Len(out)] = BlankLine
    /\ out[Len(out) - 1] = BlankLine

(***************************************************************************)
(* Claims about a pass that runs while jobs write, checked under SpecPass. *)
(***************************************************************************)
\* The records collected for the cell of task name in column skey.
RecordsOf(name, skey) ==
    {n \in 1..Len(non_okay_log_records) :
        /\ non_okay_log_records[n].task = name
        /\ non_okay_log_records[n].skey = skey}

\* C22: the Status a pass shows for a cell and the records it lists for the
\* cell come from one observation of the cell's logs, also when jobs write
\* while the pass runs: a completed pass shows no cell as OK while listing
\* a non-OK log for it, and shows no cell as ERROR, WARNING or RUNNING
\* while listing no log for it.  Stated for a pass started in the work
\* root, where both scans read the same directory.
C22_OneObservation ==
    (pc = "done" /\ cwd = WorkRoot) =>
        \A g \in 1..Len(disk.group_ids) :
            LET tasks == disk.catalog[disk.group_ids[g]]
                skeys == subtask_keys(tasks)
            IN  \A r \in 1..Len(tasks), k \in 1..Len(skeys) :
                    LET shown == RowOf(tasks[r].name, out)[k]
                        listed == RecordsOf(tasks[r].name, skeys[k])
                    IN  /\ shown = "OK" => listed = {}
                        /\ shown \in {"ERROR", "WARNING", "RUNNING"}
                               => listed # {}

\* The matrix of group g has one row per task of the catalog, in its order.
Paired(g) ==
    /\ Len(disk.matrix[g]) = Len(disk.catalog[g])
    /\ \A i \in 1..Len(disk.matrix[g]) :
           i <= Len(disk.catalog[g]) =>
               disk.matrix[g][i].task = disk.catalog[g][i].name

\* C23: a pass completes without an integrity failure only if the matrix
\* of every group has exactly one row per entry of the group's catalog, in
\* the same order: with fewer rows or more rows than tasks no report is
\* rendered as if nothing were wrong.
C23_RowPerTask ==
    pc = "done" => \A g \in 1..Len(disk.group_ids) : Paired(disk.group_ids[g])

(***************************************************************************)
(* Further claims about parse_subtask_status, checked under Spec.          *)
(***************************************************************************)
\* parse_subtask_status returned OK_1E or OK_2E by the tolerance rule of
\* lines 118-123, not as the status all logs share.
Tolerated == Called /\ Mixed /\ status \in {"OK_1E", "OK_2E"}

\* C24: whenever parse_subtask_status returns OK_1E or OK_2E by the
\* tolerance rule, every log of the directory that is not ERROR is OK: the
\* classification is never returned for a directory that also holds a
\* WARNING or TBD log.
C24_ToleratedAmongOk == Tolerated => LogStatSet \subseteq {"ERROR", "OK"}

\* C24 as it holds: whenever parse_subtask_status returns OK_1E or OK_2E by
\* the tolerance rule, no log of the directory is RUNNING, exactly one
\* (for OK_1E) or two (for OK_2E) logs are ERROR and they are fewer than a
\* fifth of the logs; the other logs may have any other status.
C24_ToleratedErrors ==
    Tolerated =>
        /\ "RUNNING" \notin LogStatSet
        /\ NErr = (IF status = "OK_1E" THEN 1 ELSE 2)
        /\ SmallThreshDen * NErr < SmallThreshNum * Len(LogStats)

\* OK_1E was returned for a directory with a WARNING and a TBD log.
C24_Witness ==
    /\ Tolerated
    /\ status = "OK_1E"
    /\ {"WARNING", "TBD"} \subseteq LogStatSet

\* C25: parse_subtask_status returns OK exactly when the directory has at
\* least one log and every log is OK, and TBD exactly when the directory
\* has no log or every log is TBD: no mixed list is aggregated to OK or to
\* TBD.
C25_OkAndTbd ==
    Called =>
        /\ status = "OK" <=> (LogStats # <<>> /\ LogStatSet = {"OK"})
        /\ status = "TBD" <=> (LogStats = <<>> \/ LogStatSet = {"TBD"})
        /\ Mixed => status \notin {"OK", "TBD"}

\* OK was returned for several logs, all OK.
C25_Witness ==
    /\ Called
    /\ status = "OK"
    /\ Len(LogStats) >= 3
    /\ LogStatSet = {"OK"}

(***************************************************************************)
(* SpecScan: parse_subtask_status on a directory whose scan returns the    *)
(* logs in any order.                                                      *)
(***************************************************************************)
MaxScanLogs == 6
ScanStatus == {"OK", "ERROR", "WARNING", "RUNNING", "TBD"}

\* The scan returns one more log, whose text the log parser reads as s.
ScanLog(s) ==
    /\ pc = "idle"
    /\ Len(fs[AggPath].files) < MaxScanLogs
    /\ fs' = [fs EXCEPT ![AggPath].files = Append(@, s)]
    /\ UNCHANGED <<pc, status>>
    /\ UNCHANGED passvars

NextScan ==
    \/ \E s \in ScanStatus : ScanLog(s)
    \/ CallParseSubtaskStatus

SpecScan == Init /\ [][NextScan]_vars

\* The directory with logs i and j in each other's place in the scan.
Swapped(i, j) ==
    [fs[AggPath] EXCEPT !.files =
        [k \in 1..Len(LogStats) |->
            IF k = i THEN LogStats[j] ELSE IF k = j THEN LogStats[i]
            ELSE LogStats[k]]]

\* C26: the outcome of parse_subtask_status, a Status or the failure of its
\* assertion, is the same for every order in which the scan returns the
\* logs: exchanging two neighbours of the list leaves it unchanged, for
\* every list, and every permutation is a sequence of such exchanges.
C26_OrderIndependent ==
    Called =>
        \A i \in 1..(Len(LogStats) - 1) :
            parse_subtask_status(Swapped(i, i + 1)) = status

\* OK_1E was returned for six logs with the ERROR log in the middle of a
\* scan that is in no particular order.
C26_Witness ==
    /\ Called
    /\ status = "OK_1E"
    /\ LogStats = <<"WARNING", "OK", "ERROR", "TBD", "OK", "OK">>

(***************************************************************************)
(* SpecGeom: invocations of reference_geometry                             *)
(* (mechroutines/es/_routines/geom.py, lines 18-113) on one run directory, *)
(* concurrent and repeated.  The geometry search itself (lines 51-104) is  *)
(* one step whose outcome, geo_found, is open.                             *)
(***************************************************************************)
MaxCalls == 2

\* What reference_geometry leaves alone.
GeomFrame ==
    /\ UNCHANGED <<fs, pc, status, disk, wrap, cwd, gi, ri, out,
                   non_okay_log_records, writes, races, exc>>
    /\ UNCHANGED <<pollvars, othervars, imagvars>>

\* One more invocation by p (line 36).
Geom_Call(p) ==
    /\ GeomFrame
    /\ inv[p].pc \in {"idle", "returned", "raised"}
    /\ inv[p].calls < MaxCalls
    /\ inv' = [inv EXCEPT ![p] = [pc |-> "exists", inf_obj |-> NoInfo,
                                  geo_found |-> FALSE,
                                  calls |-> inv[p].calls + 1]]
    /\ UNCHANGED info_status

\* run_fs[0].file.info.exists([]) (line 38)
Geom_Exists(p) ==
    /\ GeomFrame
    /\ inv[p].pc = "exists"
    /\ inv' = [inv EXCEPT ![p].pc =
                  IF info_status # NoInfo THEN "read" ELSE "write"]
    /\ UNCHANGED info_status

\* The info file is read; an invocation that finds RUNNING returns None
\* (lines 39-42), any other goes on to the search.
Geom_Read(p) ==
    /\ GeomFrame
    /\ inv[p].pc = "read"
    /\ inv' = [inv EXCEPT ![p].inf_obj = info_status,
                          ![p].pc = IF info_status = "RUNNING"
                                    THEN "returned" ELSE "search"]
    /\ UNCHANGED info_status

\* No info file was found: one with status RUNNING is written (lines 43-49).
Geom_WriteRunning(p) ==
    /\ GeomFrame
    /\ inv[p].pc = "write"
    /\ info_status' = "RUNNING"
    /\ inv' = [inv EXCEPT ![p].inf_obj = "RUNNING", ![p].pc = "search"]

\* The search for the geometry (lines 51-104).
Geom_Search(p, found) ==
    /\ GeomFrame
    /\ inv[p].pc = "search"
    /\ inv' = [inv EXCEPT ![p].geo_found = found, ![p].pc = "final"]
    /\ UNCHANGED info_status

\* An exception raised in the search (lines 51-104) leaves the function:
\* nothing catches it, lines 106-113 are not reached and the info file
\* stays as it is.
Geom_SearchRaises(p) ==
    /\ GeomFrame
    /\ inv[p].pc = "search"
    /\ inv' = [inv EXCEPT ![p].pc = "raised"]
    /\ UNCHANGED info_status

\* The status of the job is written and geo_found returned (lines 106-113).
Geom_WriteFinal(p) ==
    /\ GeomFrame
    /\ inv[p].pc = "final"
    /\ info_status' = IF inv[p].geo_found THEN "SUCCESS" ELSE "FAILURE"
    /\ inv' = [inv EXCEPT ![p].inf_obj = info_status', ![p].pc = "returned"]

NextGeom ==
    \/ \E p \in GeomProcs : Geom_Call(p)
    \/ \E p \in GeomProcs : Geom_Exists(p)
    \/ \E p \in GeomProcs : Geom_Read(p)
    \/ \E p \in GeomProcs : Geom_WriteRunning(p)
    \/ \E p \in GeomProcs, found \in BOOLEAN : Geom_Search(p, found)
    \/ \E p \in GeomProcs : Geom_SearchRaises(p)
    \/ \E p \in GeomProcs : Geom_WriteFinal(p)

SpecGeom == Init /\ [][NextGeom]_vars

\* Invocation p is past the status check and has not yet written the
\* status its search ends with.
PastCheck(p) == inv[p].pc \in {"search", "final"}

\* C27: the run-status flag of reference_geometry gives mutual exclusion
\* and is always resolved: at most one invocation on the run directory is
\* past the status check at any time, the stored status is RUNNING for as
\* long as an invocation is past the check, and an invocation that passed
\* the check has written SUCCESS or FAILURE when it ends: it has when it
\* returns, and it does not end with an exception of the search.
C27_RunFlag ==
    /\ Cardinality({p \in GeomProcs : PastCheck(p)}) <= 1
    /\ (\E p \in GeomProcs : PastCheck(p)) => info_status = "RUNNING"
    /\ \A p \in GeomProcs :
           (inv[p].pc = "returned" /\ inv[p].inf_obj # "RUNNING") =>
               inv[p].inf_obj = (IF inv[p].geo_found THEN "SUCCESS"
                                 ELSE "FAILURE")
    /\ \A p \in GeomProcs : inv[p].pc # "raised"

(***************************************************************************)
(* SpecImag: _remove_imag (mechroutines/es/_routines/geom.py, lines        *)
(* 328-373).  The Hessian check (_check_imaginary) is one step whose       *)
(* result, imag, is open; the kick-off (_kickoff_saddle) is one step that  *)
(* is recorded with the size it was given.  Sizes are counted in units of  *)
(* the default kickoff_size, 0.1; doubling a float is exact.               *)
(***************************************************************************)
MaxAttempts == 5
MaxKickoffSize == 3

\* What _remove_imag leaves alone.
ImagFrame ==
    /\ UNCHANGED <<fs, pc, status, disk, wrap, cwd, gi, ri, out,
                   non_okay_log_records, writes, races, exc>>
    /\ UNCHANGED <<pollvars, othervars, geomvars>>

\* chk_idx <= 5 in place of chk_idx < 5
loop_continues_inclusive(imag_, chk_idx_) ==
    imag_ /\ chk_idx_ <= MaxAttempts

\* while imag and chk_idx < 5 (line 349)
loop_continues(imag_, chk_idx_) ==
    imag_ /\ chk_idx_ < MaxAttempts

\* _remove_imag is called with a kickoff_size (lines 328-330).
Imag_Call(size) ==
    /\ ImagFrame
    /\ ipc = "idle"
    /\ ipc' = "check"
    /\ kickoff_size' = size
    /\ UNCHANGED <<imag, imag_fix_needed, chk_idx, kicks>>

\* The initial check, imag_fix_needed = bool(imag) and chk_idx = 0
\* (lines 340-348).
Imag_InitialCheck(res) ==
    /\ ImagFrame
    /\ ipc = "check"
    /\ imag' = res
    /\ imag_fix_needed' = res
    /\ chk_idx' = 0
    /\ ipc' = "while"
    /\ UNCHANGED <<kickoff_size, kicks>>

\* The loop condition holds: chk_idx += 1 (lines 349-350).
Imag_Enter ==
    /\ ImagFrame
    /\ ipc = "while"
    /\ loop_continues(imag, chk_idx)
    /\ chk_idx' = chk_idx + 1
    /\ ipc' = "kick"
    /\ UNCHANGED <<imag, imag_fix_needed, kickoff_size, kicks>>

\* _kickoff_saddle with the present kickoff_size (lines 354-357).
Imag_Kickoff ==
    /\ ImagFrame
    /\ ipc = "kick"
    /\ kicks' = Append(kicks, kickoff_size)
    /\ ipc' = "recheck"
    /\ UNCHANGED <<imag, imag_fix_needed, chk_idx, kickoff_size>>

\* The Hessian is removed and run again (lines 359-368).
Imag_Recheck(res) ==
    /\ ImagFrame
    /\ ipc = "recheck"
    /\ imag' = res
    /\ ipc' = "double"
    /\ UNCHANGED <<imag_fix_needed, chk_idx, kickoff_size, kicks>>

\* kickoff_size *= 2 (line 371)
Imag_Double ==
    /\ ImagFrame
    /\ ipc = "double"
    /\ kickoff_size' = kickoff_size * 2
    /\ ipc' = "while"
    /\ UNCHANGED <<imag, imag_fix_needed, chk_idx, kicks>>

\* The loop condition fails: return geo, imag_fix_needed (line 373).
Imag_Return ==
    /\ ImagFrame
    /\ ipc = "while"
    /\ ~loop_continues(imag, chk_idx)
    /\ ipc' = "returned"
    /\ UNCHANGED <<imag, imag_fix_needed, chk_idx, kickoff_size, kicks>>

NextImag ==
    \/ \E size \in 1..MaxKickoffSize : Imag_Call(size)
    \/ \E res \in BOOLEAN : Imag_InitialCheck(res)
    \/ Imag_Enter
    \/ Imag_Kickoff
    \/ \E res \in BOOLEAN : Imag_Recheck(res)
    \/ Imag_Double
    \/ Imag_Return

SpecImag == Init /\ [][NextImag]_vars

\* At most five attempts, each kick-off twice the size of the one before,
\* and, once returned, imag_fix_needed is what the initial check said: with
\* no kick-off the only check was the initial one, and a kick-off is made
\* only after an initial check that reported a mode.
C28_Bounded ==
    /\ chk_idx <= MaxAttempts
    /\ Len(kicks) <= MaxAttempts
    /\ \A k \in 2..Len(kicks) : kicks[k] = 2 * kicks[k - 1]
    /\ (ipc \in {"while", "returned"} /\ kicks # <<>>) =>
           kickoff_size = 2 * kicks[Len(kicks)]
    /\ ipc = "kick" => imag
    /\ ipc = "returned" =>
           /\ ~imag \/ chk_idx = MaxAttempts
           /\ Len(kicks) = chk_idx
           /\ imag_fix_needed = (IF kicks = <<>> THEN imag ELSE TRUE)

\* A kick-off is made only after a check that reported a mode and after
\* fewer than five attempts; at the loop test, no mode or five attempts
\* made means the function returns; imag_fix_needed is assigned by the
\* initial check and by nothing else.
C28_Step ==
    /\ Len(kicks') > Len(kicks) => (imag /\ Len(kicks) < MaxAttempts)
    /\ (ipc = "while" /\ (~imag \/ chk_idx = MaxAttempts)) =>
           ipc' = "returned"
    /\ ipc = "check" => imag_fix_needed' = imag'
    /\ ipc # "check" => imag_fix_needed' = imag_fix_needed

\* C28: _remove_imag makes at most five kick-off attempts: it kicks off
\* only while the latest Hessian check reports an imaginary mode, stops as
\* soon as a check reports none, returns after the fifth attempt, doubles
\* the kick-off size after each attempt, and returns imag_fix_needed equal
\* to the result of the initial check only.
C28_FiveAttempts == [](C28_Bounded) /\ [][C28_Step]_vars

\* All five attempts were made with sizes 1, 2, 4, 8, 16, the mode is still
\* there, and the function has returned with imag_fix_needed true.
C28_Witness ==
    /\ ipc = "returned"
    /\ chk_idx = MaxAttempts
    /\ kicks = <<1, 2, 4, 8, 16>>
    /\ imag
    /\ imag_fix_needed

====
